---------------------------- MODULE Spec2Model ----------------------------
(***************************************************************************)
(* A model of the two entry points of amplify-classifier-dojo:            *)
(*   src/train.py                      (prog = "train")                    *)
(*   src/heterogenous_ensembles/eval.py (prog = "eval")                    *)
(*                                                                         *)
(* Python values are represented as follows.                               *)
(*   None / a value v      <<>> / <<v>>      (an "optional")               *)
(*   a list                a sequence                                      *)
(*   a float               a record, see Fin / Inf / NaN below             *)
(*   a tensor              [shape |-> <<d1,..>>, data |-> flat row-major   *)
(*                          sequence, den |-> unit], element = data[i]/den *)
(*   an exception raised   pc = "error", with the exception's name in err  *)
(***************************************************************************)
EXTENDS Integers, Sequences, FiniteSets, TLC

VARIABLES
    prog,                \* which script runs: "train" or "eval"
    pc,                  \* position in the script
    err,                 \* name of the exception that ended the run, or "none"
    argv,                \* the namespace as parser.parse_args() returned it
    args,                \* the live namespace (mutated by the script)
    env,                 \* os.environ and the process's surroundings
    fs,                  \* the files the command line points to
    lightning_module,    \* train main: what setup_model_and_datamodule built
    logger,              \* what setup_aimlogger returned
    callbacks,           \* train main: the trainer's callback list
    events,              \* train main: trainer runs and artifacts logged, in order
    scores_per_model,    \* eval main: list of per-model tensors, then the stacked tensor
    averaged_scores,     \* eval main
    softvoting_classes,  \* eval main
    argmaxed_scores,     \* eval main
    hardvoting_classes,  \* eval main
    tracked              \* eval main: what was logged to the tracker, in order

vars == <<prog, pc, err, argv, args, env, fs, lightning_module, logger, callbacks, events,
          scores_per_model, averaged_scores, softvoting_classes,
          argmaxed_scores, hardvoting_classes, tracked>>

trainVars == <<lightning_module, callbacks, events>>
evalVars == <<scores_per_model, averaged_scores, softvoting_classes,
              argmaxed_scores, hardvoting_classes, tracked>>

(***************************************************************************)
(* Bounds of the model.                                                    *)
(***************************************************************************)
MaxGpus == 2          \* at most this many GPUs on the command line / in the environment
MaxWorkers == 2       \* --workers ranges over 0..MaxWorkers
MaxWorkersPerGpu == 1 \* --workers_per_gpu ranges over 1..MaxWorkersPerGpu, and the default
MaxLabels == 3        \* train.py: the classlist has 1..MaxLabels classes
MaxTrain == 2         \* train.py: the trainlist has 0..MaxTrain samples
MaxVal == 1           \* train.py: the vallist has 0..MaxVal samples
MaxEpochStop == 1     \* --epoch-stop ranges over -1..MaxEpochStop, and the default
MaxModels == 3        \* eval.py: the --models listfile has 0..MaxModels lines
MaxSamples == 2       \* eval.py: the vallist has 1..MaxSamples samples
MaxClasses == 2       \* eval.py: the classlist has 1..MaxClasses classes
MaxCells == 4         \* eval.py: models * samples is at most MaxCells
Scale == 2            \* eval.py: a probability is one of 0/Scale .. Scale/Scale

DefaultWorkersPerGpu == 4
DefaultEpochStop == 10

(***************************************************************************)
(* Python helpers.                                                         *)
(***************************************************************************)
None == <<>>
Some(v) == <<v>>
IsNone(o) == o = <<>>
Val(o) == o[1]

\* bool(x) of an optional int: None and 0 are false
TruthyInt(o) == o # <<>> /\ o[1] # 0
\* bool(x) of an optional str: None and '' are false
TruthyStr(o) == o # <<>> /\ o[1] # ""

RECURSIVE SeqSum(_)
SeqSum(s) == IF s = <<>> THEN 0 ELSE Head(s) + SeqSum(Tail(s))

RECURSIVE SeqsUpTo(_, _)
\* all sequences over S of length 0..n
SeqsUpTo(S, n) ==
    IF n = 0 THEN {<<>>}
    ELSE LET shorter == SeqsUpTo(S, n - 1)
         IN  shorter \cup {Append(s, x) : s \in {t \in shorter : Len(t) = n - 1}, x \in S}

(***************************************************************************)
(* argparse_runtime_args: the part both scripts share word for word.       *)
(***************************************************************************)
\* int(gpu) of one token of CUDA_VISIBLE_DEVICES
IntOfToken(tok) == CASE tok = "0" -> 0 [] tok = "1" -> 1 [] tok = "2" -> 2 [] OTHER -> 3

\* os.environ.get('CUDA_VISIBLE_DEVICES','UNSET').split(','), as a list of tokens
CudaTokens(e) ==
    IF IsNone(e.CUDA_VISIBLE_DEVICES) THEN <<"UNSET">> ELSE Val(e.CUDA_VISIBLE_DEVICES)

\* if not args.gpus: args.gpus = [int(gpu) for gpu in ... if gpu not in ['','UNSET']]
RecordGpus(a, e) ==
    IF a.gpus = <<>>
    THEN LET kept == SelectSeq(CudaTokens(e), LAMBDA t : t \notin {"", "UNSET"})
         IN  [i \in 1..Len(kept) |-> IntOfToken(kept[i])]
    ELSE a.gpus

\* if args.env: load_dotenv(..., override=True): the variables the .env file
\* defines replace those of the environment; of these the model keeps AIM_REPO.
LoadDotenv(a, e, f) ==
    IF ~IsNone(a.env) /\ ~IsNone(f.dotenv_AIM_REPO)
    THEN [e EXCEPT !.AIM_REPO = f.dotenv_AIM_REPO]
    ELSE e

\* if not args.num_workers: args.num_workers = len(args.gpus)*args.workers_per_gpu
NumWorkers(a, gpus) ==
    IF ~TruthyInt(a.num_workers)
    THEN Some(Len(gpus) * a.workers_per_gpu)
    ELSE a.num_workers

\* int(args.freeze) of the --freeze strings of the model
IntOfFreeze(str) == CASE str = "2" -> 2 [] str = "-1" -> -1 [] OTHER -> 0

\* if args.freeze: args.freeze = float(...) if '.' in args.freeze else int(args.freeze)
FormatFreeze(a) == IF TruthyStr(a.freeze) THEN Some(IntOfFreeze(Val(a.freeze))) ELSE a.freeze

\* train.py argparse_runtime_args, as far as the namespace fields of the model go
TrainRuntimeArgs ==
    /\ prog = "train"
    /\ pc = "argparse_runtime_args"
    /\ LET gpus == RecordGpus(args, env)
       IN  /\ args' = [args EXCEPT !.gpus = gpus, !.num_workers = NumWorkers(args, gpus),
                                   !.freeze = FormatFreeze(args)]
           /\ env' = [LoadDotenv(args, env, fs) EXCEPT !.CUDA_VISIBLE_DEVICES =
                          Some([i \in 1..Len(gpus) |-> ToString(gpus[i])])]
    /\ pc' = "main"
    /\ UNCHANGED <<prog, err, argv, fs, logger, trainVars, evalVars>>

\* eval.py argparse_runtime_args; it also reads the --models listfile
EvalRuntimeArgs ==
    /\ prog = "eval"
    /\ pc = "argparse_runtime_args"
    /\ LET gpus == RecordGpus(args, env)
       IN  /\ args' = [args EXCEPT !.gpus = gpus, !.num_workers = NumWorkers(args, gpus),
                                   !.models = fs.models_lines]
           /\ env' = [LoadDotenv(args, env, fs) EXCEPT !.CUDA_VISIBLE_DEVICES =
                          Some([i \in 1..Len(gpus) |-> ToString(gpus[i])])]
    /\ pc' = "main"
    /\ UNCHANGED <<prog, err, argv, fs, logger, trainVars, evalVars>>

(***************************************************************************)
(* float32 values, kept exact: a finite value is a reduced fraction.       *)
(***************************************************************************)
RECURSIVE GCD(_, _)
GCD(a, b) == IF b = 0 THEN a ELSE GCD(b, a % b)

Abs(x) == IF x < 0 THEN -x ELSE x

Inf == [kind |-> "inf", num |-> 1, den |-> 0]
NaN == [kind |-> "nan", num |-> 0, den |-> 0]
Fin(n, d) ==
    LET g == GCD(Abs(n), d)
    IN  [kind |-> "fin", num |-> n \div g, den |-> d \div g]

\* a / b for non-negative floats, as IEEE division gives it
FDiv(a, b) ==
    CASE a.kind = "nan" \/ b.kind = "nan" -> NaN
      [] a.kind = "inf" /\ b.kind = "inf" -> NaN
      [] a.kind = "inf" -> Inf
      [] b.kind = "inf" -> Fin(0, 1)
      [] b.num = 0 /\ a.num = 0 -> NaN
      [] b.num = 0 -> Inf
      [] OTHER -> Fin(a.num * b.den, a.den * b.num)

\* a + b for non-negative floats
FAdd(a, b) ==
    CASE a.kind = "nan" \/ b.kind = "nan" -> NaN
      [] a.kind = "inf" \/ b.kind = "inf" -> Inf
      [] OTHER -> Fin(a.num * b.den + b.num * a.den, a.den * b.den)

\* bool(x) of a float: only 0.0 is false (nan and inf are true)
FTruthy(a) == ~(a.kind = "fin" /\ a.num = 0)

RECURSIVE FSum(_)
\* tensor.sum() of a 1-D float tensor; the empty sum is 0.0
FSum(t) == IF t = <<>> THEN Fin(0, 1) ELSE FAdd(Head(t), FSum(Tail(t)))

(***************************************************************************)
(* setup_model_and_datamodule (train.py)                                   *)
(***************************************************************************)
\* torch.bincount of a list of class indices: one count per index 0..max
Bincount(targets) ==
    LET used == {targets[i] : i \in 1..Len(targets)}
        top == IF used = {} THEN -1 ELSE CHOOSE m \in used : \A x \in used : x <= m
    IN  [c \in 1..(top + 1) |-> Cardinality({i \in 1..Len(targets) : targets[i] = c - 1})]

\* a mutant of ClassWeights: proportional to the count instead of its inverse
ClassWeightsDirect(class_counts) ==
    [c \in 1..Len(class_counts) |-> Fin(class_counts[c], 1)]

\* class_weights = 1.0 / class_counts.float()
ClassWeights(class_counts) ==
    [c \in 1..Len(class_counts) |-> FDiv(Fin(1, 1), Fin(class_counts[c], 1))]

\* class_weights / class_weights.sum()
Normalized(class_weights) ==
    LET total == FSum(class_weights)
    IN  [c \in 1..Len(class_weights) |-> FDiv(class_weights[c], total)]

\* the "normalize" branch: lines 181-184
NormalizeLossWeights(f) ==
    Normalized(ClassWeights(Bincount(f.train_targets \o f.val_targets)))

\* os.path.isfile(args.loss_weights); False is the int 0, i.e. file descriptor 0
LossWeightsIsFile(a, e, f) ==
    IF a.loss_weights = "False" THEN e.stdin_regular ELSE a.loss_weights \in f.files

\* float(line) of one line of a loss-weights file
FloatOfLine(line) ==
    CASE line = "1" -> Fin(1, 1) [] line = "0.5" -> Fin(1, 2) [] line = "2" -> Fin(2, 1)
      [] OTHER -> Fin(0, 1)

\* Lines 179-187. The result is [raised, tensor]: the exception raised ("none" if
\* none) and the value of args.loss_weights_tensor afterwards.
LossWeightsTensor(a, e, f) ==
    IF a.loss_weights = "normalize"
    THEN [raised |-> "none", tensor |-> Some(NormalizeLossWeights(f))]
    ELSE IF LossWeightsIsFile(a, e, f)
         \* open(args.loss_weight): the namespace has no attribute loss_weight
         THEN [raised |-> "AttributeError", tensor |-> a.loss_weights_tensor]
         ELSE [raised |-> "none", tensor |-> a.loss_weights_tensor]

\* bool(tensor): defined only for a tensor of exactly one element
TensorBoolRaises(t) == Len(t) # 1

\* Lines 189-197. The result is [raised, kwargs]: the set of loss_kwargs keys.
LossKwargs(a, tensor) ==
    IF a.loss_function = "CrossEntropyLoss"
    THEN IF IsNone(tensor) THEN [raised |-> "none", kwargs |-> {"label_smoothing"}]
         ELSE IF TensorBoolRaises(Val(tensor))
              THEN [raised |-> "RuntimeError", kwargs |-> {"label_smoothing"}]
              ELSE [raised |-> "none",
                    kwargs |-> IF FTruthy(Val(tensor)[1])
                               THEN {"label_smoothing", "weights"}
                               ELSE {"label_smoothing"}]
    ELSE \* FocalLoss: any(args.loss_weights_tensor)
         IF IsNone(tensor) THEN [raised |-> "TypeError", kwargs |-> {"gamma"}]
         ELSE [raised |-> "none",
               kwargs |-> IF \E i \in 1..Len(Val(tensor)) : FTruthy(Val(tensor)[i])
                          THEN {"gamma", "alpha"}
                          ELSE {"gamma"}]

\* setup_model_and_datamodule(args), the first statement of train main
SetupModelAndDatamodule ==
    /\ prog = "train"
    /\ pc = "main"
    /\ LET lw == LossWeightsTensor(args, env, fs)
           lk == LossKwargs(args, lw.tensor)
           raised == IF lw.raised # "none" THEN lw.raised ELSE lk.raised
       IN  /\ args' = [args EXCEPT !.num_classes = Some(fs.num_classes),
                                   !.loss_weights_tensor = lw.tensor]
           /\ err' = raised
           /\ pc' = IF raised = "none" THEN "setup_aimlogger" ELSE "error"
           /\ lightning_module' =
                  IF raised = "none"
                  THEN Some([loss_function |-> args.loss_function, loss_kwargs |-> lk.kwargs])
                  ELSE lightning_module
    /\ UNCHANGED <<prog, argv, env, fs, logger, callbacks, events, evalVars>>

(***************************************************************************)
(* setup_aimlogger (train.py), used by both scripts                        *)
(***************************************************************************)
\* an AimLogger on `repo`, its run's artifacts URI set when `uri` is given and non-empty
AimLogger(repo, uri) ==
    [repo |-> repo, artifacts_uri |-> IF TruthyStr(uri) THEN uri ELSE None]

\* Lines 220-223: with a non-empty AIM_ARTIFACTS_S3_ENDPOINT the two keys are read
\* with os.environ[...], which raises KeyError for a variable that is not set.
S3ClientConfigRaises(e) ==
    /\ TruthyStr(e.AIM_ARTIFACTS_S3_ENDPOINT)
    /\ (IsNone(e.AIM_ARTIFACTS_S3_ACCESSKEY) \/ IsNone(e.AIM_ARTIFACTS_S3_SECRETKEY))

\* a mutant of SetupAimLogger: an AIM_REPO that is set, even to '', gives a logger
SetupAimLoggerAnyEnv(a, e) ==
    LET env_logger == IF ~IsNone(e.AIM_REPO)
                      THEN <<AimLogger(Val(e.AIM_REPO), e.AIM_ARTIFACTS_URI)>> ELSE <<>>
        args_logger == IF TruthyStr(a.repo)
                       THEN <<AimLogger(Val(a.repo), a.artifacts_location)>> ELSE <<>>
        loggers == args_logger \o env_logger
    IN  [kind |-> CASE Len(loggers) = 2 -> "list" [] Len(loggers) = 1 -> "AimLogger"
                    [] OTHER -> "None",
         loggers |-> loggers]

\* Lines 225-247: [kind |-> "None"] | [kind |-> "AimLogger"] | [kind |-> "list"],
\* with the loggers created, --repo's first.
SetupAimLogger(a, e) ==
    LET env_logger == IF TruthyStr(e.AIM_REPO)
                      THEN <<AimLogger(Val(e.AIM_REPO), e.AIM_ARTIFACTS_URI)>> ELSE <<>>
        args_logger == IF TruthyStr(a.repo)
                       THEN <<AimLogger(Val(a.repo), a.artifacts_location)>> ELSE <<>>
        loggers == args_logger \o env_logger
    IN  [kind |-> CASE Len(loggers) = 2 -> "list" [] Len(loggers) = 1 -> "AimLogger"
                    [] OTHER -> "None",
         loggers |-> loggers]

NoLogger == [kind |-> "None", loggers |-> <<>>]

\* trainer.logger: the logger given, the first one when a list was given
TrainerLogger == logger.loggers[1]

\* trainer.logger.experiment.artifacts_uri is set
HasArtifactsUri == ~IsNone(TrainerLogger.artifacts_uri)

(***************************************************************************)
(* train.py main                                                           *)
(***************************************************************************)
\* lines 262-263
TrainSetupAimLogger ==
    /\ prog = "train"
    /\ pc = "setup_aimlogger"
    /\ IF S3ClientConfigRaises(env)
       THEN logger' = logger /\ pc' = "error" /\ err' = "KeyError"
       ELSE /\ logger' = SetupAimLogger(args, env)
            /\ IF logger'.kind = "None"
               THEN pc' = "error" /\ err' = "AssertionError"
               ELSE pc' = "callbacks" /\ err' = err
    /\ UNCHANGED <<prog, argv, args, env, fs, trainVars, evalVars>>

\* a mutant of EarlyStoppingCallbacks: early stopping only for a positive patience
EarlyStoppingIfPositive(a) ==
    IF a.epoch_stop > 0
    THEN <<[class |-> "EarlyStopping", monitor |-> "val_loss", mode |-> "min",
            patience |-> a.epoch_stop]>>
    ELSE <<>>

\* lines 296-297
EarlyStoppingCallbacks(a) ==
    IF a.epoch_stop # 0
    THEN <<[class |-> "EarlyStopping", monitor |-> "val_loss", mode |-> "min",
            patience |-> a.epoch_stop]>>
    ELSE <<>>

\* lines 266-294: the callbacks registered whatever the options
FixedCallbacks ==
    <<[class |-> "LogNormalizedLoss"],
      [class |-> "BarPlotMetricAim", metric |-> "f1_perclass", order_by |-> "f1_perclass"],
      [class |-> "PlotConfusionMetricAim", order_by |-> "classes"],
      [class |-> "PlotConfusionMetricAim", order_by |-> "f1_perclass"],
      [class |-> "PlotPerclassDropdownAim"]>>

\* lines 299-300
FreezeCallbacks(a) ==
    IF TruthyInt(a.freeze) THEN <<[class |-> "ModelSummaryWithGradCallback"]>> ELSE <<>>

\* lines 307-311
CheckpointCallbacks ==
    <<[class |-> "ModelCheckpoint", monitor |-> "val_loss", mode |-> "min"]>>

\* lines 313-314
SwaCallbacks(a) ==
    IF TruthyInt(a.swa) THEN <<[class |-> "StochasticWeightAveraging"]>> ELSE <<>>

\* Lines 266-327: the callback list is assembled and the trainer created with it.
\* os.path.join(args.checkpoints_path, args.experiment, args.run) raises a
\* TypeError when --experiment was not given, before the checkpoint callback.
SetupCallbacksAndTrainer ==
    /\ prog = "train"
    /\ pc = "callbacks"
    /\ LET before == FixedCallbacks \o EarlyStoppingCallbacks(args) \o FreezeCallbacks(args)
       IN  IF IsNone(args.experiment)
           THEN /\ callbacks' = before
                /\ pc' = "error"
                /\ err' = "TypeError"
           ELSE /\ callbacks' = before \o CheckpointCallbacks \o SwaCallbacks(args)
                /\ pc' = "autobatch"
                /\ err' = err
    /\ UNCHANGED <<prog, argv, args, env, fs, lightning_module, logger, events, evalVars>>

Run(name, returned) == [kind |-> "run", name |-> name, returned |-> returned]
Artifact(path, name) == [kind |-> "artifact", path |-> path, name |-> name]

\* lines 330-335: tuner.scale_batch_size(model, ..., method='fit') runs the trainer
AutoBatch ==
    /\ prog = "train"
    /\ pc = "autobatch"
    /\ events' = IF args.autobatch # "False"
                 THEN Append(events, Run("scale_batch_size", TRUE))
                 ELSE events
    /\ pc' = "save_artifacts"
    /\ UNCHANGED <<prog, err, argv, args, env, fs, lightning_module, logger, callbacks,
                   evalVars>>

\* lines 338-344 (the vallist branch logs the trainlist file under the vallist's name)
SaveTrainingArtifacts ==
    /\ prog = "train"
    /\ pc = "save_artifacts"
    /\ events' = IF HasArtifactsUri
                 THEN events
                      \o (IF "classes.list" \in fs.files
                          THEN <<Artifact("classes.list", "classes.list")>> ELSE <<>>)
                      \o (IF "val.list" \in fs.files
                          THEN <<Artifact("train.list", "val.list")>> ELSE <<>>)
                      \o (IF "train.list" \in fs.files
                          THEN <<Artifact("train.list", "train.list")>> ELSE <<>>)
                 ELSE events
    /\ pc' = "fit"
    /\ UNCHANGED <<prog, err, argv, args, env, fs, lightning_module, logger, callbacks,
                   evalVars>>

\* line 347: trainer.fit either returns or raises
Fit ==
    /\ prog = "train"
    /\ pc = "fit"
    /\ \E returned \in BOOLEAN :
          /\ events' = Append(events, Run("fit", returned))
          /\ pc' = IF returned THEN "test" ELSE "error"
          /\ err' = IF returned THEN err ELSE "fit raised"
    /\ UNCHANGED <<prog, argv, args, env, fs, lightning_module, logger, callbacks, evalVars>>

\* a mutant of TestRequested: tests whether --testlist was given at all
TestRequestedIfGiven(a) == ~IsNone(a.testlist)

\* line 350: if args.testlist
TestRequested(a) == TruthyStr(a.testlist)

\* lines 350-351: trainer.test either returns or raises
Test ==
    /\ prog = "train"
    /\ pc = "test"
    /\ IF TestRequested(args)
       THEN \E returned \in BOOLEAN :
               /\ events' = Append(events, Run("test", returned))
               /\ pc' = IF returned THEN "copy_best" ELSE "error"
               /\ err' = IF returned THEN err ELSE "test raised"
       ELSE /\ events' = events
            /\ pc' = "copy_best"
            /\ err' = err
    /\ UNCHANGED <<prog, argv, args, env, fs, lightning_module, logger, callbacks, evalVars>>

\* lines 355-359
CopyBestModel ==
    /\ prog = "train"
    /\ pc = "copy_best"
    /\ events' = IF HasArtifactsUri
                 THEN Append(events, Artifact("best_model_path", "best_model_path"))
                 ELSE events
    /\ pc' = "done"
    /\ UNCHANGED <<prog, err, argv, args, env, fs, lightning_module, logger, callbacks,
                   evalVars>>

(***************************************************************************)
(* Tensors (eval.py).  Class indices are 0-based, positions in data 1-based.*)
(***************************************************************************)
Tensor(shape, data, den) == [shape |-> shape, data |-> data, den |-> den]

RECURSIVE Flatten(_)
\* the concatenation of a sequence of sequences
Flatten(ss) == IF ss = <<>> THEN <<>> ELSE Head(ss) \o Flatten(Tail(ss))

\* torch.stack of a non-empty list of (M, K) tensors: an (N, M, K) tensor
Stack(list) ==
    Tensor(<<Len(list)>> \o list[1].shape,
           Flatten([n \in 1..Len(list) |-> list[n].data]),
           list[1].den)

\* a mutant of MeanDim0: the first model's scores instead of the mean
FirstDim0(t) ==
    LET inner == t.shape[2] * t.shape[3]
    IN  Tensor(<<1, t.shape[2], t.shape[3]>>, [j \in 1..inner |-> t.data[j]], t.den)

\* torch.mean(t, dim=0, keepdim=True) of an (N, M, K) tensor: a (1, M, K) tensor.
\* The mean sum/N is kept exact as the sum over the unit den * N.
MeanDim0(t) ==
    LET N == t.shape[1]
        inner == t.shape[2] * t.shape[3]
    IN  Tensor(<<1, t.shape[2], t.shape[3]>>,
               [j \in 1..inner |-> SeqSum([n \in 1..N |-> t.data[(n - 1) * inner + j]])],
               t.den * N)

\* a mutant of FirstArgmax: ties go to the last index
LastArgmax(row) ==
    (CHOOSE k \in 1..Len(row) :
        /\ \A j \in 1..Len(row) : row[j] <= row[k]
        /\ \A j \in (k + 1)..Len(row) : row[j] < row[k]) - 1

\* the first index (0-based) of a maximal element of a non-empty sequence
FirstArgmax(row) ==
    (CHOOSE k \in 1..Len(row) :
        /\ \A j \in 1..Len(row) : row[j] <= row[k]
        /\ \A j \in 1..(k - 1) : row[j] < row[k]) - 1

\* a mutant of ArgmaxDim2: the index of a minimal element
ArgminDim2(t) ==
    LET K == t.shape[3]
        rows == t.shape[1] * t.shape[2]
    IN  Tensor(<<t.shape[1], t.shape[2], 1>>,
               [r \in 1..rows |->
                   FirstArgmax([k \in 1..K |-> 0 - t.data[(r - 1) * K + k]])],
               1)

\* torch.argmax(t, dim=2, keepdim=True) of a (D1, D2, K) tensor: a (D1, D2, 1) tensor
ArgmaxDim2(t) ==
    LET K == t.shape[3]
        rows == t.shape[1] * t.shape[2]
    IN  Tensor(<<t.shape[1], t.shape[2], 1>>,
               [r \in 1..rows |-> FirstArgmax([k \in 1..K |-> t.data[(r - 1) * K + k]])],
               1)

\* how often v occurs in a sequence
Occurrences(col, v) == Cardinality({i \in 1..Len(col) : col[i] = v})

\* a mutant of Modes: the values that occur least often
LeastFrequent(col) ==
    {col[i] : i \in {i \in 1..Len(col) :
        \A j \in 1..Len(col) : Occurrences(col, col[j]) >= Occurrences(col, col[i])}}

\* the values torch.mode may return for a non-empty sequence: those that occur most often
Modes(col) ==
    {col[i] : i \in {i \in 1..Len(col) :
        \A j \in 1..Len(col) : Occurrences(col, col[j]) <= Occurrences(col, col[i])}}

\* the values torch.mode(t, dim=0, keepdim=True) may return for an (N, D2, D3) tensor
ModeDim0(t) ==
    LET N == t.shape[1]
        inner == t.shape[2] * t.shape[3]
        col(j) == [n \in 1..N |-> t.data[(n - 1) * inner + j]]
        values == {t.data[i] : i \in 1..Len(t.data)}
    IN  {Tensor(<<1, t.shape[2], t.shape[3]>>, d, t.den) :
            d \in {f \in [1..inner -> values] : \A j \in 1..inner : f[j] \in Modes(col(j))}}

\* torch.squeeze(t): every dimension of size 1 is removed
Squeeze(t) == Tensor(SelectSeq(t.shape, LAMBDA dim : dim # 1), t.data, t.den)

(***************************************************************************)
(* load_model (eval.py)                                                    *)
(***************************************************************************)
RunHashes == {"8f3a1c"}
Designators == {"a.ckpt", "gone.ckpt"} \cup RunHashes

\* model_designator.endswith('.ckpt')
EndsWithCkpt(designator) == designator \in {"a.ckpt", "gone.ckpt"}

\* Lines 108-112: the checkpoint path, or Ellipsis when the designator is not an
\* existing .ckpt file (the download from Aim or S3 is a placeholder).
CkptPath(designator, f) ==
    IF designator \in f.files /\ EndsWithCkpt(designator) THEN Some(designator) ELSE None

\* Lines 105-137: load_model returns (model, transforms) when there is a checkpoint
\* path; with Ellipsis both load_from_checkpoint and the torch.load of the
\* except branch raise.
LoadModelReturns(designator, f) == ~IsNone(CkptPath(designator, f))

(***************************************************************************)
(* eval.py main                                                            *)
(***************************************************************************)
\* the (M, K) tensors softmax can produce: every row sums to 1
Rows(K) == {r \in [1..K -> 0..Scale] : SeqSum(r) = Scale}
Predictions(M, K) == {Tensor(<<M, K>>, Flatten(rows), Scale) : rows \in [1..M -> Rows(K)]}

NumSamples == Len(fs.val_targets)

\* lines 149-150
EvalSetupAimLogger ==
    /\ prog = "eval"
    /\ pc = "main"
    /\ IF S3ClientConfigRaises(env)
       THEN logger' = logger /\ pc' = "error" /\ err' = "KeyError"
       ELSE /\ logger' = SetupAimLogger(args, env)
            /\ IF logger'.kind = "None"
               THEN pc' = "error" /\ err' = "AssertionError"
               ELSE pc' = "load_model" /\ err' = err
    /\ UNCHANGED <<prog, argv, args, env, fs, trainVars, evalVars>>

\* lines 158-175: one turn of the loop over args.models
LoadAndInfer ==
    /\ prog = "eval"
    /\ pc = "load_model"
    /\ Len(scores_per_model) < Len(args.models)
    /\ LET designator == args.models[Len(scores_per_model) + 1]
       IN  IF LoadModelReturns(designator, fs)
           THEN /\ \E model_preds \in Predictions(NumSamples, fs.num_classes) :
                     scores_per_model' = Append(scores_per_model, model_preds)
                /\ pc' = pc
                /\ err' = err
           ELSE /\ scores_per_model' = scores_per_model
                /\ pc' = "error"
                /\ err' = "load_model raised"
    /\ UNCHANGED <<prog, argv, args, env, fs, logger, trainVars, averaged_scores,
                   softvoting_classes, argmaxed_scores, hardvoting_classes, tracked>>

\* line 176; torch.stack raises on an empty list
StackScores ==
    /\ prog = "eval"
    /\ pc = "load_model"
    /\ Len(scores_per_model) = Len(args.models)
    /\ IF scores_per_model = <<>>
       THEN /\ scores_per_model' = scores_per_model
            /\ pc' = "error"
            /\ err' = "RuntimeError"
       ELSE /\ scores_per_model' = Stack(scores_per_model)
            /\ pc' = "softvoting"
            /\ err' = err
    /\ UNCHANGED <<prog, argv, args, env, fs, logger, trainVars, averaged_scores,
                   softvoting_classes, argmaxed_scores, hardvoting_classes, tracked>>

\* lines 185-188
SoftVoting ==
    /\ prog = "eval"
    /\ pc = "softvoting"
    /\ averaged_scores' = Some(MeanDim0(scores_per_model))
    /\ softvoting_classes' = Some(Squeeze(ArgmaxDim2(Val(averaged_scores'))))
    /\ pc' = "hardvoting"
    /\ UNCHANGED <<prog, err, argv, args, env, fs, logger, trainVars, scores_per_model,
                   argmaxed_scores, hardvoting_classes, tracked>>

\* lines 193-196
HardVoting ==
    /\ prog = "eval"
    /\ pc = "hardvoting"
    /\ argmaxed_scores' = Some(ArgmaxDim2(scores_per_model))
    /\ \E mode \in ModeDim0(Val(argmaxed_scores')) :
          hardvoting_classes' = Some(Squeeze(mode))
    /\ pc' = "metrics"
    /\ UNCHANGED <<prog, err, argv, args, env, fs, logger, trainVars, scores_per_model,
                   averaged_scores, softvoting_classes, tracked>>

AveragingModes == <<"weighted", "micro", "macro", "none">>
Statistics == <<"f1", "recall", "accuracy", "precision">>

\* one thing logged to the tracker: by which call, under which name, for which
\* statistic and averaging mode, with which voting_ensemble context, and from
\* which predictions it was computed
Logged(call, name, stat, averaging, voting, preds) ==
    [call |-> call, name |-> name, stat |-> stat, averaging |-> averaging,
     voting_ensemble |-> voting, preds |-> preds]

\* a mutant of PerclassPlotted: every statistic's per-class values are plotted
PerclassPlottedAlways(stat) == TRUE

\* line 217: if stat=='f1'
PerclassPlotted(stat) == stat = "f1"

\* lines 205-223: what one turn of the inner loop logs
LoggedFor(averaging, stat) ==
    IF averaging # "none"
    THEN <<Logged("track", stat, stat, averaging, "soft", "averaged_scores")>>
    ELSE IF PerclassPlotted(stat)
         THEN <<Logged("fig_log2aim", "f1_perclass", stat, "none", "soft",
                       "averaged_scores")>>
         ELSE <<>>

\* lines 202-223: what the two loops log, in order
MetricsLogged ==
    Flatten([i \in 1..(Len(AveragingModes) * Len(Statistics)) |->
                LoggedFor(AveragingModes[((i - 1) \div Len(Statistics)) + 1],
                          Statistics[((i - 1) % Len(Statistics)) + 1])])

\* Lines 200-223.  The first turn of the loops already fails when torchmetrics
\* rejects num_classes < 2, when torch.squeeze(averaged_scores) is not (M, K)
\* against M labels (a single sample, or a single class), or when the logger is
\* the list setup_aimlogger returns for two repos (it has no .experiment).
Metrics ==
    /\ prog = "eval"
    /\ pc = "metrics"
    /\ LET preds == Squeeze(Val(averaged_scores))
       IN  IF fs.num_classes < 2 \/ preds.shape # <<NumSamples, fs.num_classes>>
           THEN tracked' = tracked /\ pc' = "error" /\ err' = "ValueError"
           ELSE IF logger.kind = "list"
                THEN tracked' = tracked /\ pc' = "error" /\ err' = "AttributeError"
                ELSE tracked' = tracked \o MetricsLogged /\ pc' = "confusion" /\ err' = err
    /\ UNCHANGED <<prog, argv, args, env, fs, logger, trainVars, scores_per_model,
                   averaged_scores, softvoting_classes, argmaxed_scores,
                   hardvoting_classes>>

\* lines 225-239
ConfusionMatrix ==
    /\ prog = "eval"
    /\ pc = "confusion"
    /\ tracked' = Append(tracked, Logged("fig_log2aim", "confusion_matrix",
                                         "confusion_matrix", "none", "soft",
                                         "softvoting_classes"))
    /\ pc' = "done"
    /\ UNCHANGED <<prog, err, argv, args, env, fs, logger, trainVars, scores_per_model,
                   averaged_scores, softvoting_classes, argmaxed_scores,
                   hardvoting_classes>>

(***************************************************************************)
(* Initial states.                                                         *)
(***************************************************************************)
\* the namespace parse_args() returns when only the required options are given
DefaultArgs ==
    [gpus |-> <<>>, num_workers |-> None, workers_per_gpu |-> DefaultWorkersPerGpu,
     loss_weights |-> "False", loss_function |-> "CrossEntropyLoss",
     loss_weights_tensor |-> None, epoch_stop |-> DefaultEpochStop, freeze |-> None,
     swa |-> None, autobatch |-> "False", testlist |-> None, repo |-> None,
     experiment |-> None, run |-> None,
     artifacts_location |-> None, models |-> "models.list", num_classes |-> None,
     env |-> None]

DefaultEnv ==
    [CUDA_VISIBLE_DEVICES |-> None, AIM_REPO |-> None, AIM_ARTIFACTS_URI |-> None,
     AIM_ARTIFACTS_S3_ENDPOINT |-> None, AIM_ARTIFACTS_S3_ACCESSKEY |-> None,
     AIM_ARTIFACTS_S3_SECRETKEY |-> None, stdin_regular |-> FALSE]

DefaultFs ==
    [num_classes |-> 2, train_targets |-> <<0, 1>>, val_targets |-> <<0, 1>>,
     files |-> {"classes.list", "train.list", "val.list", "models.list", "weights.txt",
                "a.ckpt", "notes.txt"},
     weights_lines |-> <<"0.5", "2">>, models_lines |-> <<"a.ckpt">>,
     dotenv_AIM_REPO |-> None]

\* the state of everything the scripts have not touched yet
Untouched ==
    /\ err = "none"
    /\ args = argv
    /\ lightning_module = None
    /\ logger = NoLogger
    /\ callbacks = <<>>
    /\ events = <<>>
    /\ scores_per_model = <<>>
    /\ averaged_scores = None
    /\ softvoting_classes = None
    /\ argmaxed_scores = None
    /\ hardvoting_classes = None
    /\ tracked = <<>>

GpuLists == {[i \in 1..n |-> i - 1] : n \in 0..MaxGpus}
CudaValues ==
    {None, Some(<<"">>)} \cup {Some([i \in 1..n |-> ToString(i - 1)]) : n \in 1..MaxGpus}

(***************************************************************************)
(* SpecArgs: argparse_runtime_args of either script on its own.            *)
(***************************************************************************)
InitArgs ==
    /\ prog \in {"train", "eval"}
    /\ pc = "argparse_runtime_args"
    /\ argv \in {[DefaultArgs EXCEPT !.gpus = g, !.num_workers = w, !.workers_per_gpu = p] :
                    g \in GpuLists,
                    w \in {None} \cup {Some(n) : n \in 0..MaxWorkers},
                    p \in {DefaultWorkersPerGpu} \cup 1..MaxWorkersPerGpu}
    /\ env \in {[DefaultEnv EXCEPT !.CUDA_VISIBLE_DEVICES = c] : c \in CudaValues}
    /\ fs = DefaultFs
    /\ Untouched

NextArgs == TrainRuntimeArgs \/ EvalRuntimeArgs

SpecArgs == InitArgs /\ [][NextArgs]_vars

\* C10: after argparse_runtime_args, args.num_workers is the --workers value when
\* --workers was given on the command line, and otherwise the number of recorded
\* GPUs times workers_per_gpu.
C10_WorkersOverride ==
    pc = "main" =>
        args.num_workers = IF ~IsNone(argv.num_workers)
                           THEN argv.num_workers
                           ELSE Some(Len(args.gpus) * argv.workers_per_gpu)

(***************************************************************************)
(* SpecSetup: setup_model_and_datamodule on its own.                       *)
(***************************************************************************)
LossWeightsValues == {"False", "normalize", "weights.txt", "missing.txt"}
LossFunctions == {"CrossEntropyLoss", "FocalLoss"}

WeightsLines(K) == [c \in 1..K |-> IF c = 1 THEN "0.5" ELSE IF c = 2 THEN "2" ELSE "1"]

InitSetup ==
    /\ prog = "train"
    /\ pc = "main"
    /\ argv \in {[DefaultArgs EXCEPT !.loss_weights = w, !.loss_function = f,
                                     !.num_workers = Some(0)] :
                    w \in LossWeightsValues, f \in LossFunctions}
    /\ env \in {[DefaultEnv EXCEPT !.stdin_regular = b, !.CUDA_VISIBLE_DEVICES = Some(<<>>)] :
                   b \in BOOLEAN}
    /\ \E K \in 1..MaxLabels :
          fs \in {[DefaultFs EXCEPT !.num_classes = K, !.train_targets = t,
                                    !.val_targets = v, !.weights_lines = WeightsLines(K)] :
                    t \in SeqsUpTo(0..(K - 1), MaxTrain) \ {<<>>},
                    v \in SeqsUpTo(0..(K - 1), MaxVal)}
    /\ Untouched

NextSetup == SetupModelAndDatamodule

SpecSetup == InitSetup /\ [][NextSetup]_vars

\* C8: when --loss-weights is a path to an existing file, the function does not
\* raise and args.loss_weights_tensor holds the file's floats, one per line, in order.
C8_LossWeightsFile ==
    (pc # "main" /\ argv.loss_weights \in fs.files) =>
        /\ err = "none"
        /\ args.loss_weights_tensor =
               Some([i \in 1..Len(fs.weights_lines) |-> FloatOfLine(fs.weights_lines[i])])

\* number of training plus validation samples of class c (0-based)
SampleCount(c) ==
    Cardinality({i \in 1..Len(fs.train_targets) : fs.train_targets[i] = c})
    + Cardinality({i \in 1..Len(fs.val_targets) : fs.val_targets[i] = c})

\* a < b for finite floats
FLess(a, b) == a.num * b.den < b.num * a.den

\* C9: with --loss-weights normalize, args.loss_weights_tensor has one weight per
\* class, the weights are inversely proportional to the classes' sample counts and
\* sum to 1, and a class with strictly fewer samples has a strictly larger weight.
C9_NormalizeBoostsRare ==
    (pc # "main" /\ argv.loss_weights = "normalize") =>
        /\ ~IsNone(args.loss_weights_tensor)
        /\ LET w == Val(args.loss_weights_tensor)
               K == fs.num_classes
           IN  /\ Len(w) = K
               /\ \A c \in 1..K : w[c].kind = "fin"
               /\ FSum(w) = Fin(1, 1)
               /\ \A a, b \in 1..K :
                     w[a].num * SampleCount(a - 1) * w[b].den
                         = w[b].num * SampleCount(b - 1) * w[a].den
               /\ \A a, b \in 1..K :
                     SampleCount(a - 1) < SampleCount(b - 1) => FLess(w[b], w[a])

(***************************************************************************)
(* Spec: train.py run as a script, argparse_runtime_args then main.        *)
(***************************************************************************)
\* the loss options of the runs: the default, FocalLoss with and without weights,
\* and a weights file
LossOptions ==
    {<<"False", "CrossEntropyLoss">>, <<"False", "FocalLoss">>,
     <<"normalize", "FocalLoss">>, <<"weights.txt", "CrossEntropyLoss">>}

InitTrain ==
    /\ prog = "train"
    /\ pc = "argparse_runtime_args"
    /\ argv \in {[DefaultArgs EXCEPT !.loss_weights = l[1], !.loss_function = l[2],
                                     !.epoch_stop = es, !.freeze = fr, !.swa = sw,
                                     !.autobatch = ab, !.testlist = tl, !.repo = rp,
                                     !.artifacts_location = al, !.experiment = ex] :
                    l \in LossOptions,
                    es \in (-1..MaxEpochStop) \cup {DefaultEpochStop},
                    fr \in {None, Some("-1")},
                    sw \in {None, Some(5)},
                    ab \in {"False", "power", "binsearch"},
                    tl \in {None, Some(""), Some("test.list")},
                    rp \in {None, Some("aim_repo")},
                    al \in {None, Some("s3://artifacts")},
                    ex \in {None, Some("experiment")}}
    /\ env \in {[DefaultEnv EXCEPT !.AIM_REPO = r, !.AIM_ARTIFACTS_URI = u] :
                   r \in {None, Some(""), Some("env_repo")},
                   u \in {None, Some("s3://env-artifacts")}}
    /\ fs = DefaultFs
    /\ Untouched

Next ==
    \/ TrainRuntimeArgs
    \/ SetupModelAndDatamodule
    \/ TrainSetupAimLogger
    \/ SetupCallbacksAndTrainer
    \/ AutoBatch
    \/ SaveTrainingArtifacts
    \/ Fit
    \/ Test
    \/ CopyBestModel

Spec == InitTrain /\ [][Next]_vars

\* the trainer exists: pl.Trainer(...) on line 317 has returned
TrainerCreated ==
    \/ pc \in {"autobatch", "save_artifacts", "fit", "test", "copy_best", "done"}
    \/ pc = "error" /\ err \in {"fit raised", "test raised"}

CallbackIdx(class) == {i \in 1..Len(callbacks) : callbacks[i].class = class}

\* C7: an EarlyStopping callback (val_loss, min, patience = --epoch-stop) is in the
\* trainer's callback list exactly when --epoch-stop is non-zero, and the
\* ModelCheckpoint callback is in it exactly once.
C7_EarlyStoppingIffEpochStop ==
    /\ CallbackIdx("EarlyStopping") # {} => argv.epoch_stop # 0
    /\ TrainerCreated =>
          /\ CallbackIdx("EarlyStopping") # {} <=> argv.epoch_stop # 0
          /\ Cardinality(CallbackIdx("EarlyStopping")) <= 1
          /\ \A i \in CallbackIdx("EarlyStopping") :
                callbacks[i] = [class |-> "EarlyStopping", monitor |-> "val_loss",
                                mode |-> "min", patience |-> argv.epoch_stop]
          /\ Cardinality(CallbackIdx("ModelCheckpoint")) = 1

\* a trainer with early stopping on a negative patience has run to the end
C7_Witness ==
    /\ pc = "done"
    /\ argv.epoch_stop < 0
    /\ CallbackIdx("EarlyStopping") # {}
    /\ CallbackIdx("ModelCheckpoint") # {}

RunIdx(name) == {i \in 1..Len(events) : events[i].kind = "run" /\ events[i].name = name}
BestIdx == {i \in 1..Len(events) :
               events[i].kind = "artifact" /\ events[i].name = "best_model_path"}

\* fit is called at most once, and once in a run that reaches the end
FitOnce ==
    /\ Cardinality(RunIdx("fit")) <= 1
    /\ pc = "done" => Cardinality(RunIdx("fit")) = 1

\* the best checkpoint is logged only after fit, and test when it runs, has
\* returned, and only when the trainer's logger has an artifacts URI
BestAfterRuns ==
    \A b \in BestIdx :
        /\ HasArtifactsUri
        /\ \E i \in RunIdx("fit") : i < b /\ events[i].returned
        /\ \A i \in RunIdx("test") : i < b /\ events[i].returned

\* C5 as stated: fit is called exactly once and before any other trainer run; test
\* is called (once, after fit) iff --testlist was given; the best checkpoint is
\* logged only after fit (and test) returned and only with an artifacts URI.
C5_FitFirstTestIffGiven ==
    /\ FitOnce
    /\ \A i \in 1..Len(events) :
          (events[i].kind = "run" /\ events[i].name # "fit")
              => \E j \in RunIdx("fit") : j < i
    /\ Cardinality(RunIdx("test")) <= 1
    /\ pc \in {"copy_best", "done"} =>
          (RunIdx("test") # {} <=> ~IsNone(argv.testlist))
    /\ BestAfterRuns

\* C5 as amended: fit is called exactly once and before test; the only trainer run
\* that can precede it is the tuner's batch-size scaling, which runs iff --autobatch
\* is set; test is called (once, after fit returned) iff --testlist is non-empty;
\* the best checkpoint is logged only after fit (and test) returned and only with
\* an artifacts URI.
C5_FitOnceTestIffNonEmpty ==
    /\ FitOnce
    /\ \A i \in RunIdx("test") : \E j \in RunIdx("fit") : j < i /\ events[j].returned
    /\ \A i \in RunIdx("scale_batch_size") : \A j \in RunIdx("fit") : i < j
    /\ Cardinality(RunIdx("scale_batch_size")) <= 1
    /\ pc \in {"save_artifacts", "fit", "test", "copy_best", "done"} =>
          (RunIdx("scale_batch_size") # {} <=> argv.autobatch # "False")
    /\ Cardinality(RunIdx("test")) <= 1
    /\ pc \in {"copy_best", "done"} =>
          (RunIdx("test") # {} <=> (~IsNone(argv.testlist) /\ Val(argv.testlist) # ""))
    /\ BestAfterRuns

\* a run with --autobatch and a --testlist has tuned, fitted, tested and logged the
\* best checkpoint
C5_Witness ==
    /\ pc = "done"
    /\ RunIdx("scale_batch_size") # {}
    /\ RunIdx("fit") # {}
    /\ RunIdx("test") # {}
    /\ BestIdx # {}

(***************************************************************************)
(* SpecEval: eval.py run as a script, argparse_runtime_args then main.     *)
(***************************************************************************)
InitEval ==
    /\ prog = "eval"
    /\ pc = "argparse_runtime_args"
    /\ \E rp \in {None, Some("aim_repo")}, r \in {None, Some(""), Some("env_repo")} :
          /\ IsNone(rp) \/ r # Some("")
          /\ argv = [DefaultArgs EXCEPT !.repo = rp]
          /\ env = [DefaultEnv EXCEPT !.AIM_REPO = r]
    /\ \E K \in 1..MaxClasses, M \in 1..MaxSamples :
          fs \in {[DefaultFs EXCEPT !.num_classes = K,
                                    !.val_targets = [i \in 1..M |-> (i - 1) % K],
                                    !.models_lines = lines] :
                    lines \in {l \in SeqsUpTo(Designators, MaxModels) :
                                  Len(l) * M <= MaxCells}}
    /\ Untouched

NextEval ==
    \/ EvalRuntimeArgs
    \/ EvalSetupAimLogger
    \/ LoadAndInfer
    \/ StackScores
    \/ SoftVoting
    \/ HardVoting
    \/ Metrics
    \/ ConfusionMatrix

SpecEval == InitEval /\ [][NextEval]_vars

\* the stacked (N, M, K) scores, once line 176 has run
Stacked == pc \in {"softvoting", "hardvoting", "metrics", "confusion", "done"}
               \/ (pc = "error" /\ err \in {"ValueError", "AttributeError"})
NModels == scores_per_model.shape[1]
NClasses == fs.num_classes

\* model n's probability of class k (0-based) for sample m, in units of 1/Scale
Score(n, m, k) == scores_per_model.data[((n - 1) * NumSamples + (m - 1)) * NClasses + k + 1]

\* the mean over the models of sample m's probability of class k, as a fraction
MeanScore(m, k) ==
    [num |-> SeqSum([n \in 1..NModels |-> Score(n, m, k)]), den |-> NModels * Scale]

\* C1: softvoting_classes holds exactly one class per sample, and for every sample
\* it is an arg-max over the classes of the mean, across the models, of the
\* sample's per-class probabilities.
C1_SoftVotingArgmaxOfMean ==
    (Stacked /\ ~IsNone(softvoting_classes)) =>
        LET soft == Val(softvoting_classes)
        IN  /\ Len(soft.data) = NumSamples
            /\ soft.shape = IF NumSamples = 1 THEN <<>> ELSE <<NumSamples>>
            /\ \A m \in 1..NumSamples :
                  /\ soft.data[m] \in 0..(NClasses - 1)
                  /\ \A k \in 0..(NClasses - 1) :
                        ~FLess(MeanScore(m, soft.data[m]), MeanScore(m, k))

\* soft voting over several models that picks different classes for two samples,
\* one of them a class the first model did not rank first
C1_Witness ==
    /\ Stacked
    /\ ~IsNone(softvoting_classes)
    /\ NModels >= 2
    /\ NumSamples >= 2
    /\ Val(softvoting_classes).data[1] # Val(softvoting_classes).data[2]
    /\ \E m \in 1..NumSamples, k \in 0..(NClasses - 1) :
          Score(1, m, k) > Score(1, m, Val(softvoting_classes).data[m])

\* model n's predicted class for sample m
Predicted(n, m) == Val(argmaxed_scores).data[(n - 1) * NumSamples + m]

\* the number of models that predict class c for sample m
Votes(m, c) == Cardinality({n \in 1..NModels : Predicted(n, m) = c})

\* C2: each model's predicted class is an arg-max of that model's own per-class
\* probabilities; hardvoting_classes is, for every sample, a class predicted by
\* the largest number of models, and the class a strict majority predicts when
\* there is one.
C2_HardVotingIsMode ==
    (Stacked /\ ~IsNone(hardvoting_classes)) =>
        LET hard == Val(hardvoting_classes)
        IN  /\ Len(hard.data) = NumSamples
            /\ \A n \in 1..NModels, m \in 1..NumSamples :
                  /\ Predicted(n, m) \in 0..(NClasses - 1)
                  /\ \A k \in 0..(NClasses - 1) : Score(n, m, k) <= Score(n, m, Predicted(n, m))
            /\ \A m \in 1..NumSamples :
                  /\ Votes(m, hard.data[m]) >= 1
                  /\ \A c \in 0..(NClasses - 1) :
                        /\ Votes(m, c) <= Votes(m, hard.data[m])
                        /\ 2 * Votes(m, c) > NModels => hard.data[m] = c

\* hard voting over three models, two of which outvote the third
C2_Witness ==
    /\ Stacked
    /\ ~IsNone(hardvoting_classes)
    /\ NModels = 3
    /\ Votes(1, Val(hardvoting_classes).data[1]) = 2

\* C3: when eval main runs to completion, something was logged with
\* voting_ensemble='hard' computed from hardvoting_classes, and something with
\* voting_ensemble='soft' computed from the soft-voting result.
C3_BothStrategiesLogged ==
    pc = "done" =>
        /\ \E i \in 1..Len(tracked) :
              tracked[i].voting_ensemble = "hard" /\ tracked[i].preds = "hardvoting_classes"
        /\ \E i \in 1..Len(tracked) :
              /\ tracked[i].voting_ensemble = "soft"
              /\ tracked[i].preds \in {"averaged_scores", "softvoting_classes"}

StatisticNames == {Statistics[i] : i \in 1..Len(Statistics)}
AggregateModes == {"weighted", "micro", "macro"}

\* a completed run logged, for every statistic, exactly one aggregated value per
\* averaging mode
AggregatesLogged ==
    \A stat \in StatisticNames, averaging \in AggregateModes :
        Cardinality({i \in 1..Len(tracked) :
                        /\ tracked[i].call = "track"
                        /\ tracked[i].name = stat
                        /\ tracked[i].averaging = averaging}) = 1

\* the per-class values of the statistic were logged
PerclassLogged(stat) ==
    \E i \in 1..Len(tracked) : tracked[i].averaging = "none" /\ tracked[i].stat = stat

ConfusionLogged == \E i \in 1..Len(tracked) : tracked[i].name = "confusion_matrix"

\* C4 as stated: for each of precision, recall, F1 and accuracy the run logs one
\* aggregated value per averaging mode and the statistic's per-class values; a
\* confusion matrix is logged as well.
C4_PerclassOfEveryStatistic ==
    pc = "done" =>
        /\ AggregatesLogged
        /\ \A stat \in StatisticNames : PerclassLogged(stat)
        /\ ConfusionLogged

\* C4 as amended: for each of the four statistics the run logs one aggregated value
\* per averaging mode; per-class values are logged for F1 only; a confusion matrix
\* is logged as well.
C4_PerclassOfF1Only ==
    pc = "done" =>
        /\ AggregatesLogged
        /\ \A stat \in StatisticNames : PerclassLogged(stat) <=> stat = "f1"
        /\ ConfusionLogged

\* a completed run: twelve aggregated values, the F1 bar plot, the confusion matrix
C4_Witness ==
    /\ pc = "done"
    /\ Len(tracked) = 14
    /\ PerclassLogged("f1")

\* C6: load_model returns for every line of the --models listfile that is a path
\* to an existing .ckpt file or an Aim run hash.
C6_EveryDesignatorLoads ==
    (prog = "eval" /\ err = "load_model raised") =>
        LET designator == args.models[Len(scores_per_model) + 1]
        IN  ~(designator \in RunHashes
              \/ (designator \in fs.files /\ EndsWithCkpt(designator)))


(***************************************************************************)
(* SpecLogger: both scripts, run with and without --repo, AIM_REPO and the *)
(* S3 variables of setup_aimlogger.                                        *)
(***************************************************************************)
RepoValues == {None, Some(""), Some("aim_repo")}
EnvRepoValues == {None, Some(""), Some("env_repo")}
S3Endpoints == {None, Some(""), Some("https://s3")}
S3Keys == {None, Some("key")}

\* --env not given; given, with a .env file that leaves AIM_REPO alone, empties it
\* or sets it
DotenvOptions ==
    {<<None, None>>, <<Some(".env"), None>>, <<Some(".env"), Some("")>>,
     <<Some(".env"), Some("dotenv_repo")>>}

LoggerEnvs ==
    {[DefaultEnv EXCEPT !.AIM_REPO = r, !.AIM_ARTIFACTS_S3_ENDPOINT = ep,
                        !.AIM_ARTIFACTS_S3_ACCESSKEY = ak,
                        !.AIM_ARTIFACTS_S3_SECRETKEY = sk] :
        r \in EnvRepoValues, ep \in S3Endpoints, ak \in S3Keys, sk \in S3Keys}

InitLogger ==
    /\ prog \in {"train", "eval"}
    /\ pc = "argparse_runtime_args"
    /\ env \in LoggerEnvs
    /\ \E de \in DotenvOptions :
          IF prog = "train"
          THEN /\ argv \in {[DefaultArgs EXCEPT !.loss_weights = l[1],
                                                !.loss_function = l[2],
                                                !.testlist = Some("test.list"),
                                                !.experiment = Some("experiment"),
                                                !.repo = rp, !.env = de[1]] :
                               l \in LossOptions, rp \in RepoValues}
               /\ fs = [DefaultFs EXCEPT !.dotenv_AIM_REPO = de[2]]
          ELSE /\ argv \in {[DefaultArgs EXCEPT !.repo = rp, !.env = de[1]] :
                               rp \in RepoValues}
               /\ fs \in {[DefaultFs EXCEPT !.models_lines = lines,
                                            !.dotenv_AIM_REPO = de[2]] :
                             lines \in {<<"a.ckpt">>, <<"8f3a1c", "a.ckpt">>,
                                        <<"gone.ckpt">>}}
    /\ Untouched

NextLogger ==
    \/ TrainRuntimeArgs
    \/ SetupModelAndDatamodule
    \/ TrainSetupAimLogger
    \/ SetupCallbacksAndTrainer
    \/ AutoBatch
    \/ SaveTrainingArtifacts
    \/ Fit
    \/ Test
    \/ CopyBestModel
    \/ EvalRuntimeArgs
    \/ EvalSetupAimLogger
    \/ LoadAndInfer
    \/ StackScores
    \/ SoftVoting
    \/ HardVoting
    \/ Metrics
    \/ ConfusionMatrix

SpecLogger == InitLogger /\ [][NextLogger]_vars

\* neither --repo nor AIM_REPO holds a non-empty string; after
\* argparse_runtime_args, env is the environment setup_aimlogger reads
NoRepo == ~TruthyStr(args.repo) /\ ~TruthyStr(env.AIM_REPO)

\* --repo was not given and AIM_REPO is unset or empty
RepoNotGiven == IsNone(args.repo) /\ ~TruthyStr(env.AIM_REPO)

\* main has stopped at its 'Aim logger is None' assertion
StoppedAtAssertion == pc = "error" /\ err = "AssertionError"

\* main has stopped in setup_aimlogger's S3 client configuration
StoppedInS3Config == pc = "error" /\ err = "KeyError" /\ S3ClientConfigRaises(env)

\* train main has stopped in setup_model_and_datamodule, before setup_aimlogger
StoppedInSetupModel == prog = "train" /\ pc = "error" /\ IsNone(lightning_module)

\* main has not come past the call of setup_aimlogger and its assertion
NotPastAssertion ==
    /\ pc \in {"argparse_runtime_args", "main", "setup_aimlogger", "error"}
    /\ logger.kind = "None"
    /\ prog = "eval" => scores_per_model = <<>> /\ tracked = <<>>
    /\ prog = "train" => ~TrainerCreated /\ callbacks = <<>> /\ events = <<>>

\* C11 as stated: when --repo is not given and AIM_REPO is unset or empty, main stops
\* at the 'Aim logger is None' assertion and nowhere else, before a model is loaded
\* or a metric tracked (eval) and before the trainer is created or fit called
\* (train); when either is given, setup_aimlogger does not return None.
C11_NoRepoStopsAtAssertion ==
    /\ RepoNotGiven => /\ NotPastAssertion
                       /\ pc = "error" => StoppedAtAssertion
    /\ ~RepoNotGiven => ~StoppedAtAssertion

\* C11, amended: when neither --repo nor AIM_REPO holds a non-empty string, no run
\* comes past main's 'Aim logger is None' assertion: setup_aimlogger gives no logger,
\* no model is loaded and no metric tracked (eval), no trainer is created and fit is
\* not called (train), and a run that has stopped has stopped at the assertion, or
\* earlier in setup_aimlogger's S3 client configuration, or (train) earlier still in
\* setup_model_and_datamodule. When either holds a non-empty string, setup_aimlogger
\* does not return None.
C11_NoRepoNeverPastAssertion ==
    /\ NoRepo => /\ NotPastAssertion
                 /\ pc = "error" =>
                       StoppedAtAssertion \/ StoppedInS3Config \/ StoppedInSetupModel
    /\ ~NoRepo => ~StoppedAtAssertion

\* train main stopped at the assertion after an empty --repo and an empty AIM_REPO
C11_Witness ==
    /\ prog = "train"
    /\ StoppedAtAssertion
    /\ args.repo = Some("")
    /\ env.AIM_REPO = Some("")
    /\ ~IsNone(lightning_module)


\* the class with model n's largest probability for sample m, the lowest such class
\* when several share it
LowestArgmax(n, m) ==
    CHOOSE c \in 0..(NClasses - 1) :
        /\ \A k \in 0..(NClasses - 1) : Score(n, m, k) <= Score(n, m, c)
        /\ \A k \in 0..(c - 1) : Score(n, m, k) < Score(n, m, c)

\* every model predicts class c for sample m
AllPredict(m, c) == \A n \in 1..NModels : LowestArgmax(n, m) = c

=============================================================================
